---------------------------- MODULE Spec2Model ----------------------------
(***************************************************************************)
(* vi-music (src-tauri/src/main.rs): the session state (AppState), the     *)
(* playback clock (PlaybackState) and the playback engine thread           *)
(* (AudioPlayer::new), with the Tauri commands that drive them.            *)
(*                                                                         *)
(* Conventions.                                                            *)
(*   Option<T>      None is {} and Some(x) is {x}.                         *)
(*   Instant        an integer count of clock ticks; TicksPerSec ticks are *)
(*                  one second, Duration::as_secs() truncates.             *)
(*   u64 / i64      WordBits-bit words (the code's are 64 bits wide; the   *)
(*                  width is scaled so that the values fit the checker's   *)
(*                  integers).  Unsigned arithmetic wraps as in a release  *)
(*                  build; `as` casts reinterpret the bits.                *)
(*   f32 volume     hundredths (1.0 is 100); f32 speed likewise.           *)
(*   result         what the command called last returned (NoCall before   *)
(*                  the first call).  load_folder and load_playlist        *)
(*                  return the number of tracks they list.                 *)
(***************************************************************************)
EXTENDS Integers, Sequences, FiniteSets, TLC

VARIABLES
    playlist,             \* AppState.playlist: Mutex<Vec<String>>
    current_index,        \* AppState.current_index: Mutex<usize>
    current_track,        \* AppState.current_track: Mutex<Option<String>>
    current_duration,     \* AppState.current_duration: Mutex<Option<u64>>
    volume,               \* AppState.volume: Mutex<f32>
    is_playing,           \* AppState.is_playing: Mutex<bool>
    is_paused,            \* AppState.is_paused: Mutex<bool>
    panicked,             \* a command panicked: the process is gone
    queue,                \* the mpsc channel of AudioCommand, in send order
    engine_pc,            \* where the engine loop is: "check" or "recv"
    audio_output,         \* engine: the output stream is open (Some)
    current_sink,         \* engine: Option<Sink>
    selected_device_name, \* engine: Option<String>
    playback_state,       \* Arc<Mutex<PlaybackState>>
    now,                  \* Instant::now(), in ticks
    result,               \* return value of the command called last
    calls                 \* commands in progress on other threads, by step

session == <<playlist, current_index, current_track, current_duration,
             volume, is_playing, is_paused, panicked>>
engine  == <<engine_pc, audio_output, current_sink, selected_device_name,
             playback_state>>
vars    == <<session, queue, engine, now, result, calls>>

---------------------------------------------------------------------------
(* Bounds of the model *)

MaxLen == 3         \* longest playlist a caller loads
MaxQueue == 2       \* commands in flight at once
MaxNow == 2         \* ticks the clock advances
TicksPerSec == 2    \* resolution of Instant below one second
WordBits == 10      \* width of the modelled u64 / i64

---------------------------------------------------------------------------
(* Option, integers of fixed width, time *)

None == {}
Some(x) == {x}
Unwrap(o) == CHOOSE x \in o : TRUE
UnwrapOr(o, d) == IF o = None THEN d ELSE Unwrap(o)

Pow2(n) == IF n = 0 THEN 1 ELSE 2 ^ n
U64_MAX == Pow2(WordBits) - 1
WrapU64(x) == x % Pow2(WordBits)
\* `x as i64` of a u64, and the wrap of an i64 sum
AsI64(x) == IF WrapU64(x) >= Pow2(WordBits - 1)
            THEN WrapU64(x) - Pow2(WordBits) ELSE WrapU64(x)
\* `x as u64` of an i64
AsU64(x) == WrapU64(x)

Min(a, b) == IF a <= b THEN a ELSE b
Max(a, b) == IF a >= b THEN a ELSE b

\* Instant::duration_since saturates at zero; Duration::as_secs truncates
DurationSince(later, earlier) == IF later >= earlier THEN later - earlier ELSE 0
AsSecs(d) == d \div TicksPerSec

---------------------------------------------------------------------------
(* The files on disk: what Path::file_name, Path::extension and            *)
(* get_audio_duration give for each path                                   *)

Library == << "/m/a.flac", "/m/b.ogg", "/m/c.mp3", "/m/d.wav" >>

FileName(path) ==
    CASE path = "/m/a.flac" -> "a.flac"
      [] path = "/m/b.ogg"  -> "b.ogg"
      [] path = "/m/c.mp3"  -> "c.mp3"
      [] OTHER              -> "d.wav"

Extension(path) ==
    CASE path = "/m/a.flac" -> "flac"
      [] path = "/m/b.ogg"  -> "ogg"
      [] path = "/m/c.mp3"  -> "mp3"
      [] OTHER              -> "wav"

\* the decoder does not know the duration of the ogg file
get_audio_duration(path) ==
    CASE path = "/m/a.flac" -> Some(30)
      [] path = "/m/b.ogg"  -> None
      [] path = "/m/c.mp3"  -> Some(45)
      [] OTHER              -> Some(100)

---------------------------------------------------------------------------
(* Inputs of the commands *)

PlaylistInputs ==
    { SubSeq(Library, 1, n) : n \in 0 .. Min(MaxLen, Len(Library)) }
IndexInputs == 0 .. MaxLen
SkipInputs == { None, Some(10) }
SeekInputs == { 0, 40 }
DeltaInputs == { -20, 10, 200 }
VolumeInputs == { -50, 50, 150 }
SpeedInputs == { 10, 200 }
DeviceInputs == { "", "hdmi" }

---------------------------------------------------------------------------
(* AudioCommand *)

CmdPlay(path, vol, skip) ==
    [type |-> "Play", path |-> path, volume |-> vol, skip |-> skip]
CmdPause == [type |-> "Pause"]
CmdResume == [type |-> "Resume"]
CmdStop == [type |-> "Stop"]
CmdSetVolume(vol) == [type |-> "SetVolume", volume |-> vol]
CmdSeek(pos) == [type |-> "Seek", position |-> pos]
CmdSetSpeed(s) == [type |-> "SetSpeed", speed |-> s]
CmdSetDevice(name) == [type |-> "SetDevice", name |-> name]

\* mutant: the newest command overtakes the commands that wait
send_Overtaking(q, cmd) == <<cmd>> \o q

\* AudioPlayer::send: the channel is unbounded and send never blocks
send(q, cmd) == Append(q, cmd)

---------------------------------------------------------------------------
(* PlaybackState *)

DefaultVolume == 100
DefaultSpeed == 100

PlaybackStateNew ==
    [start_time |-> None, start_position |-> 0, is_paused |-> FALSE,
     pause_time |-> None, current_path |-> None, is_finished |-> FALSE,
     speed |-> DefaultSpeed]

get_elapsed(ps, t) ==
    IF ps.start_time # None
    THEN IF ps.is_paused /\ ps.pause_time # None
         THEN WrapU64(ps.start_position
                 + AsSecs(DurationSince(Unwrap(ps.pause_time), Unwrap(ps.start_time))))
         ELSE WrapU64(ps.start_position
                 + AsSecs(DurationSince(t, Unwrap(ps.start_time))))
    ELSE 0

---------------------------------------------------------------------------
(* Return values of the commands *)

Result(op, status, err, value, flag, track) ==
    [op |-> op, status |-> status, err |-> err, value |-> value,
     flag |-> flag, track |-> track]
NoCall == Result("none", "none", "", 0, FALSE, None)
OkUnit(op) == Result(op, "ok", "", 0, FALSE, None)
OkNum(op, n) == Result(op, "ok", "", n, FALSE, None)
OkBool(op, b) == Result(op, "ok", "", 0, b, None)
OkTrack(op, info) == Result(op, "ok", "", 0, FALSE, Some(info))
Err(op, msg) == Result(op, "err", msg, 0, FALSE, None)
Panicked(op) == Result(op, "panic", "", 0, FALSE, None)

InvalidIndex == "Invalid track index"
EmptyPlaylist == "Playlist is empty"
NothingPlaying == "No track is playing"

TrackInfo(path, index) ==
    [path |-> path, name |-> FileName(path), index |-> index,
     duration |-> get_audio_duration(path)]

\* the fields of PlayerStatus, in the order get_status reads them; each read
\* takes and releases the lock of its own field
StatusReads ==
    << "is_playing", "is_paused", "is_finished", "current_track",
       "current_index", "volume", "speed", "playlist_length", "elapsed",
       "duration" >>

BlankStatus ==
    [is_playing |-> FALSE, is_paused |-> FALSE, is_finished |-> FALSE,
     current_track |-> None, current_index |-> 0, volume |-> 0, speed |-> 0,
     playlist_length |-> 0, elapsed |-> 0, duration |-> None]

\* no command is part-way through: get_status is at no read (pc 0; snap is
\* the PlayerStatus it builds, seen the history of the session states that
\* existed while it ran), stop is at no write (0), next_track has read
\* nothing (pc 0; playlist_len and next_index are its locals), toggle_pause
\* and seek are not called (pc 0; position is the argument of seek), and
\* the engine is not inside its Seek handler with the clock locked
NoCalls ==
    [get_status |-> [pc |-> 0, snap |-> BlankStatus, seen |-> {}],
     stop |-> 0,
     next_track |-> [pc |-> 0, playlist_len |-> 0, next_index |-> 0],
     toggle_pause |-> 0,
     seek |-> [pc |-> 0, position |-> 0],
     engine_holds |-> FALSE]

---------------------------------------------------------------------------
(* The locks: one std::sync::Mutex for each field of AppState and one for  *)
(* the PlaybackState.  A guard bound by `let` lives to the end of its      *)
(* block or to its drop(); a guard that is a temporary lives to the end of *)
(* the statement that creates it.                                          *)

Threads == { "get_status", "stop", "toggle_pause", "seek", "engine" }

\* the mutex a field of PlayerStatus is read under
LockOf(field) ==
    CASE field \in {"is_finished", "speed", "elapsed"} -> "playback_state"
      [] field = "playlist_length"                      -> "playlist"
      [] field = "duration"                             -> "current_duration"
      [] OTHER                                          -> field

\* mutant: get_status releases each lock as soon as it has copied the field
StatusHolds_Releases(pc) == {}

\* get_status about to make read number pc.  Its body is one struct
\* expression, so the guards of the session fields it has read are
\* temporaries of that expression and are all held until it returns;
\* is_finished, get_speed and get_elapsed release the clock when they
\* return.
StatusHolds(pc) ==
    { LockOf(StatusReads[i]) : i \in 1 .. pc - 1 } \ { "playback_state" }

\* mutant: toggle_pause keeps the guard of is_playing while it locks is_paused
TogglePauseHolds_KeepsPlaying(pc) == IF pc >= 2 THEN { "is_playing" } \cup (IF pc = 3 THEN { "is_paused" } ELSE {}) ELSE {}

\* toggle_pause: the guard of is_playing is dropped at the end of line 847;
\* the guard of is_paused is held from line 852 to the drop at 856 or 862
TogglePauseHolds(pc) == IF pc = 3 THEN { "is_paused" } ELSE {}

\* seek: the guard of is_playing is dropped at the end of line 997; the
\* guard of current_duration is held from line 1002 to the return
SeekHolds(pc) == IF pc = 3 THEN { "current_duration" } ELSE {}

\* the locks a thread holds between two of its steps
Holds(t) ==
    CASE t = "get_status"   -> StatusHolds(calls.get_status.pc)
      [] t = "toggle_pause" -> TogglePauseHolds(calls.toggle_pause)
      [] t = "seek"         -> SeekHolds(calls.seek.pc)
      [] t = "engine"       -> IF calls.engine_holds
                               THEN { "playback_state" } ELSE {}
      [] OTHER              -> {}

\* the lock the next step of a thread takes first
Wants(t) ==
    CASE t = "get_status" ->
           IF calls.get_status.pc > 0
           THEN { LockOf(StatusReads[calls.get_status.pc]) } ELSE {}
      [] t = "stop" ->
           CASE calls.stop = 1 -> { "is_playing" }
             [] calls.stop = 2 -> { "is_paused" }
             [] calls.stop = 3 -> { "current_track" }
             [] OTHER          -> {}
      [] t = "toggle_pause" ->
           CASE calls.toggle_pause = 1 -> { "is_playing" }
             [] calls.toggle_pause = 2 -> { "is_paused" }
             [] OTHER                  -> {}
      [] t = "seek" ->
           CASE calls.seek.pc = 1 -> { "is_playing" }
             [] calls.seek.pc = 2 -> { "current_duration" }
             [] OTHER             -> {}
      [] OTHER ->
           IF /\ ~calls.engine_holds
              /\ engine_pc = "recv"
              /\ queue # << >>
              /\ Head(queue).type # "SetVolume"
           THEN { "playback_state" } ELSE {}

\* Mutex::lock returns only when no thread holds the mutex
Free(lock) == \A t \in Threads : lock \notin Holds(t)

\* the next step of thread t is not kept waiting by a lock
CanLock(t) == \A lock \in Wants(t) : Free(lock)

---------------------------------------------------------------------------
(* Init: AppState::new, AudioPlayer::new, PlaybackState::new *)

Init ==
    /\ playlist = << >>
    /\ current_index = 0
    /\ current_track = None
    /\ current_duration = None
    /\ volume = DefaultVolume
    /\ is_playing = FALSE
    /\ is_paused = FALSE
    /\ panicked = FALSE
    /\ queue = << >>
    /\ engine_pc = "check"
    /\ audio_output \in BOOLEAN     \* OutputStream::try_default().ok()
    /\ current_sink = None
    /\ selected_device_name = None
    /\ playback_state = PlaybackStateNew
    /\ now = 0
    /\ result = NoCall
    /\ calls = NoCalls

---------------------------------------------------------------------------
(* The Tauri commands.  main.rs catches no panic: a command that panics    *)
(* ends the process, and nothing runs once panicked is TRUE.               *)

Running == ~panicked
CanSend == Len(queue) < MaxQueue

\* mutant: starting a track leaves the paused flag of the session as it is
StartTrack_KeepsPause(op, index, skip) ==
    LET path == playlist[index + 1] IN
    /\ current_duration' = get_audio_duration(path)
    /\ queue' = send(queue, CmdPlay(path, volume, skip))
    /\ current_index' = index
    /\ is_playing' = TRUE
    /\ current_track' = Some(FileName(path))
    /\ result' = OkTrack(op, TrackInfo(path, index))
    /\ UNCHANGED <<playlist, volume, is_paused, panicked, engine, now, calls>>

\* the part play_track, next_track and prev_track share once the index
\* is chosen: lines 812-842, 889-918, 932-961
StartTrack(op, index, skip) ==
    LET path == playlist[index + 1] IN
    /\ current_duration' = get_audio_duration(path)
    /\ queue' = send(queue, CmdPlay(path, volume, skip))
    /\ current_index' = index
    /\ is_playing' = TRUE
    /\ is_paused' = FALSE
    /\ current_track' = Some(FileName(path))
    /\ result' = OkTrack(op, TrackInfo(path, index))
    /\ UNCHANGED <<playlist, volume, panicked, engine, now, calls>>

\* a command that returns Err before it changed or sent anything
Fail(op, msg) ==
    /\ result' = Err(op, msg)
    /\ UNCHANGED <<session, queue, engine, now, calls>>

\* mutant: the index is stored before it is validated
play_track_StoresFirst(index, skip_secs) ==
    /\ Running
    /\ IF index >= Len(playlist)
       THEN /\ current_index' = index
            /\ result' = Err("play_track", InvalidIndex)
            /\ UNCHANGED <<playlist, current_track, current_duration, volume,
                           is_playing, is_paused, panicked, queue, engine, now,
                           calls>>
       ELSE /\ CanSend
            /\ StartTrack("play_track", index, UnwrapOr(skip_secs, 0))

play_track(index, skip_secs) ==
    /\ Running
    /\ IF index >= Len(playlist)
       THEN Fail("play_track", InvalidIndex)
       ELSE /\ CanSend
            /\ StartTrack("play_track", index, UnwrapOr(skip_secs, 0))

\* mutant: the command always pauses
toggle_pause_AlwaysPauses ==
    /\ Running
    /\ IF ~is_playing
       THEN Fail("toggle_pause", NothingPlaying)
       ELSE /\ CanSend
            /\ queue' = send(queue, CmdPause)
            /\ is_paused' = TRUE
            /\ result' = OkBool("toggle_pause", TRUE)
            /\ UNCHANGED <<playlist, current_index, current_track,
                           current_duration, volume, is_playing, panicked,
                           engine, now, calls>>

toggle_pause ==
    /\ Running
    /\ IF ~is_playing
       THEN Fail("toggle_pause", NothingPlaying)
       ELSE /\ CanSend
            /\ IF is_paused
               THEN /\ queue' = send(queue, CmdResume)
                    /\ is_paused' = FALSE
                    /\ result' = OkBool("toggle_pause", FALSE)
               ELSE /\ queue' = send(queue, CmdPause)
                    /\ is_paused' = TRUE
                    /\ result' = OkBool("toggle_pause", TRUE)
            /\ UNCHANGED <<playlist, current_index, current_track,
                           current_duration, volume, is_playing, panicked,
                           engine, now, calls>>

stop ==
    /\ Running
    /\ CanSend
    /\ queue' = send(queue, CmdStop)
    /\ is_playing' = FALSE
    /\ is_paused' = FALSE
    /\ current_track' = None
    /\ result' = OkUnit("stop")
    /\ UNCHANGED <<playlist, current_index, current_duration, volume,
                   panicked, engine, now, calls>>

next_index(current, playlist_len) == (current + 1) % playlist_len

prev_index(current, playlist_len) ==
    IF current = 0 THEN playlist_len - 1 ELSE current - 1

\* playlist[i] of a Vec panics when i is out of bounds
IndexPanics(op) ==
    /\ panicked' = TRUE
    /\ result' = Panicked(op)
    /\ UNCHANGED <<playlist, current_index, current_track, current_duration,
                   volume, is_playing, is_paused, queue, engine, now, calls>>

\* mutant: an empty playlist also stops the session
next_track_StopsOnEmpty ==
    /\ Running
    /\ IF Len(playlist) = 0
       THEN /\ is_playing' = FALSE
            /\ result' = Err("next_track", EmptyPlaylist)
            /\ UNCHANGED <<playlist, current_index, current_track,
                           current_duration, volume, is_paused, panicked,
                           queue, engine, now, calls>>
       ELSE /\ CanSend
            /\ StartTrack("next_track",
                          next_index(current_index, Len(playlist)), 0)

next_track ==
    /\ Running
    /\ IF Len(playlist) = 0
       THEN Fail("next_track", EmptyPlaylist)
       ELSE LET index == next_index(current_index, Len(playlist)) IN
            IF index >= Len(playlist)
            THEN IndexPanics("next_track")
            ELSE /\ CanSend
                 /\ StartTrack("next_track", index, 0)

prev_track ==
    /\ Running
    /\ IF Len(playlist) = 0
       THEN Fail("prev_track", EmptyPlaylist)
       ELSE LET index == prev_index(current_index, Len(playlist)) IN
            IF index >= Len(playlist)
            THEN IndexPanics("prev_track")
            ELSE /\ CanSend
                 /\ StartTrack("prev_track", index, 0)

\* next_track, one lock at a time: the length of the playlist is read and
\* the lock released (line 879)
next_track_len ==
    /\ Running
    /\ calls.next_track.pc = 0
    /\ IF Len(playlist) = 0
       THEN /\ result' = Err("next_track", EmptyPlaylist)
            /\ UNCHANGED calls
       ELSE /\ calls' = [calls EXCEPT !.next_track =
                            [pc |-> 1, playlist_len |-> Len(playlist),
                             next_index |-> 0]]
            /\ UNCHANGED result
    /\ UNCHANGED <<session, queue, engine, now>>

\* the current index is read and the next index computed (lines 884-885)
next_track_index ==
    /\ Running
    /\ calls.next_track.pc = 1
    /\ calls' = [calls EXCEPT
                    !.next_track.pc = 2,
                    !.next_track.next_index =
                        next_index(current_index,
                                   calls.next_track.playlist_len)]
    /\ UNCHANGED <<session, queue, engine, now, result>>

\* the playlist is locked again and playlist[next_index] is read (lines
\* 887-888); the rest of the command follows (lines 891-918)
next_track_read ==
    /\ Running
    /\ calls.next_track.pc = 2
    /\ LET index == calls.next_track.next_index IN
       IF index >= Len(playlist)
       THEN /\ panicked' = TRUE
            /\ result' = Panicked("next_track")
            /\ UNCHANGED <<playlist, current_index, current_track,
                           current_duration, volume, is_playing, is_paused,
                           queue>>
       ELSE LET path == playlist[index + 1] IN
            /\ CanSend
            /\ current_duration' = get_audio_duration(path)
            /\ queue' = send(queue, CmdPlay(path, volume, 0))
            /\ current_index' = index
            /\ is_playing' = TRUE
            /\ is_paused' = FALSE
            /\ current_track' = Some(FileName(path))
            /\ result' = OkTrack("next_track", TrackInfo(path, index))
            /\ UNCHANGED <<playlist, volume, panicked>>
    /\ calls' = [calls EXCEPT !.next_track = NoCalls.next_track]
    /\ UNCHANGED <<engine, now>>

Clamp(x, lo, hi) == Min(Max(x, lo), hi)

\* mutant: the volume is stored and sent as given
set_volume_Unclamped(v) ==
    /\ Running
    /\ CanSend
    /\ volume' = v
    /\ queue' = send(queue, CmdSetVolume(v))
    /\ result' = OkNum("set_volume", v)
    /\ UNCHANGED <<playlist, current_index, current_track, current_duration,
                   is_playing, is_paused, panicked, engine, now, calls>>

set_volume(v) ==
    LET clamped == Clamp(v, 0, 100) IN
    /\ Running
    /\ CanSend
    /\ volume' = clamped
    /\ queue' = send(queue, CmdSetVolume(clamped))
    /\ result' = OkNum("set_volume", clamped)
    /\ UNCHANGED <<playlist, current_index, current_track, current_duration,
                   is_playing, is_paused, panicked, engine, now, calls>>

set_speed(s) ==
    LET clamped == Clamp(s, 25, 300) IN
    /\ Running
    /\ CanSend
    /\ queue' = send(queue, CmdSetSpeed(clamped))
    /\ result' = OkNum("set_speed", clamped)
    /\ UNCHANGED <<session, engine, now, calls>>

\* mutant: the position is not clamped to the duration
seek_target_Unclamped(position, duration) == position

\* lines 1002-1004
seek_target(position, duration) == Min(position, UnwrapOr(duration, U64_MAX))

seek(position) ==
    /\ Running
    /\ IF ~is_playing
       THEN Fail("seek", NothingPlaying)
       ELSE LET clamped == seek_target(position, current_duration) IN
            /\ CanSend
            /\ queue' = send(queue, CmdSeek(clamped))
            /\ result' = OkNum("seek", clamped)
            /\ UNCHANGED <<session, engine, now, calls>>

\* lines 1017-1021: the casts and the clamp
seek_relative_target(elapsed, delta, duration) ==
    LET current == AsI64(elapsed)
        max_pos == AsI64(UnwrapOr(duration, U64_MAX))
    IN  AsU64(Min(Max(AsI64(current + delta), 0), max_pos))

\* mutant: the command does not check that a track is playing
seek_relative_Unchecked(delta) ==
    LET new_pos == seek_relative_target(get_elapsed(playback_state, now),
                                        delta, current_duration) IN
    /\ Running
    /\ CanSend
    /\ queue' = send(queue, CmdSeek(new_pos))
    /\ result' = OkNum("seek_relative", new_pos)
    /\ UNCHANGED <<session, engine, now, calls>>

seek_relative(delta) ==
    /\ Running
    /\ IF ~is_playing
       THEN Fail("seek_relative", NothingPlaying)
       ELSE LET new_pos == seek_relative_target(
                               get_elapsed(playback_state, now),
                               delta, current_duration) IN
            /\ CanSend
            /\ queue' = send(queue, CmdSeek(new_pos))
            /\ result' = OkNum("seek_relative", new_pos)
            /\ UNCHANGED <<session, engine, now, calls>>

set_audio_device(device_name) ==
    /\ Running
    /\ CanSend
    /\ queue' = send(queue, CmdSetDevice(device_name))
    /\ result' = OkUnit("set_audio_device")
    /\ UNCHANGED <<session, engine, now, calls>>

set_playlist(paths) ==
    /\ Running
    /\ playlist' = paths
    /\ result' = OkUnit("set_playlist")
    /\ UNCHANGED <<current_index, current_track, current_duration, volume,
                   is_playing, is_paused, panicked, queue, engine, now, calls>>

\* lines 703-704 and 1098-1099: the new playlist, and index 0
ReplacePlaylist(op, tracks) ==
    /\ playlist' = tracks
    /\ current_index' = 0
    /\ result' = OkNum(op, Len(tracks))
    /\ UNCHANGED <<current_track, current_duration, volume, is_playing,
                   is_paused, panicked, queue, engine, now, calls>>

\* the audio files found under the folder, sorted (Library is sorted)
load_folder(tracks) ==
    /\ Running
    /\ ReplacePlaylist("load_folder", tracks)

\* the tracks of the saved playlist that still exist
load_playlist(tracks) ==
    /\ Running
    /\ ReplacePlaylist("load_playlist", tracks)

\* get_status, taken at one instant
get_status ==
    [is_playing |-> is_playing,
     is_paused |-> is_paused,
     is_finished |-> playback_state.is_finished,
     current_track |-> current_track,
     current_index |-> current_index,
     volume |-> volume,
     speed |-> playback_state.speed,
     playlist_length |-> Len(playlist),
     elapsed |-> get_elapsed(playback_state, now),
     duration |-> current_duration]

\* the session state at one instant, as the fields PlayerStatus has for it
SessionState ==
    [is_playing |-> is_playing,
     is_paused |-> is_paused,
     current_track |-> current_track,
     current_index |-> current_index,
     volume |-> volume,
     playlist_length |-> Len(playlist),
     duration |-> current_duration]

\* a session write made while a get_status call runs joins its history
Observed(c) ==
    IF c.get_status.pc > 0
    THEN [c EXCEPT !.get_status.seen = @ \cup {SessionState'}]
    ELSE c

\* get_status is called: no lock is taken yet
get_status_call ==
    /\ Running
    /\ calls.get_status.pc = 0
    /\ calls' = [calls EXCEPT !.get_status =
                    [pc |-> 1, snap |-> BlankStatus, seen |-> {SessionState}]]
    /\ UNCHANGED <<session, queue, engine, now, result>>

\* get_status locks one field and copies it, keeping the guard if it is a
\* session field (StatusHolds); after the last field it returns the
\* PlayerStatus and all its guards are dropped
get_status_read ==
    /\ Running
    /\ calls.get_status.pc > 0
    /\ CanLock("get_status")
    /\ LET pc == calls.get_status.pc
           field == StatusReads[pc]
           last == pc = Len(StatusReads)
       IN  /\ calls' = [calls EXCEPT
                           !.get_status.snap[field] = get_status[field],
                           !.get_status.pc = IF last THEN 0 ELSE pc + 1]
           /\ result' = IF last THEN OkUnit("get_status") ELSE result
    /\ UNCHANGED <<session, queue, engine, now>>

\* stop, one lock at a time: the send
stop_send ==
    /\ Running
    /\ calls.stop = 0
    /\ CanSend
    /\ queue' = send(queue, CmdStop)
    /\ calls' = [calls EXCEPT !.stop = 1]
    /\ UNCHANGED <<session, engine, now, result>>

stop_is_playing ==
    /\ Running
    /\ calls.stop = 1
    /\ CanLock("stop")
    /\ is_playing' = FALSE
    /\ UNCHANGED <<playlist, current_index, current_track, current_duration,
                   volume, is_paused, panicked, queue, engine, now, result>>
    /\ calls' = Observed([calls EXCEPT !.stop = 2])

stop_is_paused ==
    /\ Running
    /\ calls.stop = 2
    /\ CanLock("stop")
    /\ is_paused' = FALSE
    /\ UNCHANGED <<playlist, current_index, current_track, current_duration,
                   volume, is_playing, panicked, queue, engine, now, result>>
    /\ calls' = Observed([calls EXCEPT !.stop = 3])

\* the last write of stop, and its return
stop_current_track ==
    /\ Running
    /\ calls.stop = 3
    /\ CanLock("stop")
    /\ current_track' = None
    /\ result' = OkUnit("stop")
    /\ UNCHANGED <<playlist, current_index, current_duration, volume,
                   is_playing, is_paused, panicked, queue, engine, now>>
    /\ calls' = Observed([calls EXCEPT !.stop = 0])

\* toggle_pause, one lock at a time: the call
toggle_pause_call ==
    /\ Running
    /\ calls.toggle_pause = 0
    /\ calls' = [calls EXCEPT !.toggle_pause = 1]
    /\ UNCHANGED <<session, queue, engine, now, result>>

\* lines 847-850: is_playing is read under its own lock
toggle_pause_check ==
    /\ Running
    /\ calls.toggle_pause = 1
    /\ CanLock("toggle_pause")
    /\ IF ~is_playing
       THEN /\ result' = Err("toggle_pause", NothingPlaying)
            /\ calls' = [calls EXCEPT !.toggle_pause = 0]
       ELSE /\ calls' = [calls EXCEPT !.toggle_pause = 2]
            /\ UNCHANGED result
    /\ UNCHANGED <<session, queue, engine, now>>

\* line 852: is_paused is locked
toggle_pause_lock ==
    /\ Running
    /\ calls.toggle_pause = 2
    /\ CanLock("toggle_pause")
    /\ calls' = [calls EXCEPT !.toggle_pause = 3]
    /\ UNCHANGED <<session, queue, engine, now, result>>

\* lines 853-865: the send, the write of is_paused, the drop of its guard
\* and the return
toggle_pause_flip ==
    /\ Running
    /\ calls.toggle_pause = 3
    /\ CanSend
    /\ queue' = send(queue, IF is_paused THEN CmdResume ELSE CmdPause)
    /\ is_paused' = ~is_paused
    /\ result' = OkBool("toggle_pause", ~is_paused)
    /\ UNCHANGED <<playlist, current_index, current_track, current_duration,
                   volume, is_playing, panicked, engine, now>>
    /\ calls' = Observed([calls EXCEPT !.toggle_pause = 0])

\* seek, one lock at a time: the call
seek_call(position) ==
    /\ Running
    /\ calls.seek.pc = 0
    /\ calls' = [calls EXCEPT !.seek = [pc |-> 1, position |-> position]]
    /\ UNCHANGED <<session, queue, engine, now, result>>

\* lines 997-1000: is_playing is read under its own lock
seek_check ==
    /\ Running
    /\ calls.seek.pc = 1
    /\ CanLock("seek")
    /\ IF ~is_playing
       THEN /\ result' = Err("seek", NothingPlaying)
            /\ calls' = [calls EXCEPT !.seek = NoCalls.seek]
       ELSE /\ calls' = [calls EXCEPT !.seek.pc = 2]
            /\ UNCHANGED result
    /\ UNCHANGED <<session, queue, engine, now>>

\* line 1002: current_duration is locked
seek_lock ==
    /\ Running
    /\ calls.seek.pc = 2
    /\ CanLock("seek")
    /\ calls' = [calls EXCEPT !.seek.pc = 3]
    /\ UNCHANGED <<session, queue, engine, now, result>>

\* lines 1003-1007: the clamp, the send and the return, which drops the
\* guard of current_duration
seek_send ==
    /\ Running
    /\ calls.seek.pc = 3
    /\ CanSend
    /\ LET clamped == seek_target(calls.seek.position, current_duration) IN
         /\ queue' = send(queue, CmdSeek(clamped))
         /\ result' = OkNum("seek", clamped)
    /\ calls' = [calls EXCEPT !.seek = NoCalls.seek]
    /\ UNCHANGED <<session, engine, now>>

---------------------------------------------------------------------------
(* The engine thread: AudioPlayer::new.                                    *)
(* Whether a file opens and decodes, whether an output stream opens and    *)
(* whether an in-place seek succeeds is decided by the environment.        *)

NewSink(path, vol, seek_secs) ==
    [path |-> path, volume |-> vol, speed |-> DefaultSpeed, paused |-> FALSE,
     start |-> seek_secs, empty |-> FALSE]

\* play_file: Some(sink) when the sink is created and the source opens.
\* The result of the seek to seek_secs (format.seek at line 166, try_seek at
\* line 306) is dropped: when it fails the sink plays from the beginning.
play_file(path, vol, seek_secs, opens, seeks) ==
    IF opens
    THEN Some(NewSink(path, vol, IF seeks THEN seek_secs ELSE 0))
    ELSE None

\* the outcomes of that seek, which is made only `if seek_secs > 0`
SeekOutcomes(seek_secs) == IF seek_secs > 0 THEN BOOLEAN ELSE {TRUE}

\* mutant: the output opened for the second attempt is not kept
PlayWithRetry_ForgetsOutput(path, vol, secs, opens1, reopens, opens2, s) ==
    LET first == IF audio_output
                 THEN play_file(path, vol, secs, opens1, s)
                 ELSE None
    IN  IF first # None
        THEN [sink |-> first, output |-> audio_output]
        ELSE [sink |-> IF reopens
                       THEN play_file(path, vol, secs, opens2, s)
                       ELSE None,
              output |-> audio_output]

\* lines 331-349 and 447-464: play on the open output; if that did not
\* play, recreate the output and try once more
PlayWithRetry(path, vol, seek_secs, opens1, reopens, opens2, seeks) ==
    LET first == IF audio_output
                 THEN play_file(path, vol, seek_secs, opens1, seeks)
                 ELSE None
    IN  IF first # None
        THEN [sink |-> first, output |-> audio_output]
        ELSE [sink |-> IF reopens
                       THEN play_file(path, vol, seek_secs, opens2, seeks)
                       ELSE None,
              output |-> reopens]

\* mutant: the check does not look at the sink
FinishedCheck_AnySink(ps, sink) ==
    IF ~ps.is_finished /\ ps.start_time # None
    THEN [ps EXCEPT !.is_finished = TRUE]
    ELSE ps

\* the loop's check of a drained sink, lines 314-321
FinishedCheck(ps, sink) ==
    IF sink # None /\ Unwrap(sink).empty
       /\ ~ps.is_finished /\ ps.start_time # None
    THEN [ps EXCEPT !.is_finished = TRUE]
    ELSE ps

EngineCheck ==
    /\ Running
    /\ engine_pc = "check"
    /\ engine_pc' = "recv"
    /\ playback_state' = FinishedCheck(playback_state, current_sink)
    /\ UNCHANGED <<result, calls>>
    /\ UNCHANGED <<session, queue, audio_output, current_sink,
                   selected_device_name, now>>

\* mutant: the engine waits for a command without a timeout
EngineTimeout_Blocks ==
    /\ Running
    /\ engine_pc = "recv"
    /\ queue = << >>
    /\ UNCHANGED vars

\* recv_timeout gave Err: nothing was sent for 100 ms
EngineTimeout ==
    /\ Running
    /\ engine_pc = "recv"
    /\ queue = << >>
    /\ engine_pc' = "check"
    /\ UNCHANGED <<result, calls>>
    /\ UNCHANGED <<session, queue, audio_output, current_sink,
                   selected_device_name, playback_state, now>>

\* mutant: Play leaves the finished flag
PlayClock_KeepsFinished(ps, path, skip_secs) ==
    [ps EXCEPT !.start_time = Some(now), !.start_position = skip_secs,
               !.is_paused = FALSE, !.pause_time = None,
               !.current_path = Some(path)]

PlayClock(ps, path, skip_secs) ==
    [ps EXCEPT !.start_time = Some(now), !.start_position = skip_secs,
               !.is_paused = FALSE, !.pause_time = None,
               !.current_path = Some(path), !.is_finished = FALSE]

\* The choices of the environment are drawn where the code comes to them:
\* a second attempt is made only after the first did not play, a file is
\* opened only on an open output, a seek is made only in a source that opened.
HandlePlay(cmd) ==
    \E opens1 \in IF audio_output THEN BOOLEAN ELSE {FALSE} :
    \E reopens \in IF opens1 THEN {FALSE} ELSE BOOLEAN :
    \E opens2 \in IF reopens THEN BOOLEAN ELSE {FALSE} :
    \E seeks \in IF opens1 \/ opens2 THEN SeekOutcomes(cmd.skip) ELSE {TRUE} :
      LET r == PlayWithRetry(cmd.path, cmd.volume, cmd.skip,
                             opens1, reopens, opens2, seeks) IN
      /\ current_sink' = r.sink
      /\ audio_output' = r.output
      /\ playback_state' = IF r.sink # None
                           THEN PlayClock(playback_state, cmd.path, cmd.skip)
                           ELSE playback_state
      /\ UNCHANGED selected_device_name

\* mutant: Pause also moves the reference instant
PauseClock_MovesReference(ps) ==
    [ps EXCEPT !.is_paused = TRUE, !.pause_time = Some(now),
               !.start_time = Some(now)]

PauseClock(ps) ==
    [ps EXCEPT !.is_paused = TRUE, !.pause_time = Some(now)]

HandlePause ==
    /\ IF current_sink # None
       THEN /\ current_sink' = Some([Unwrap(current_sink) EXCEPT !.paused = TRUE])
            /\ playback_state' = PauseClock(playback_state)
       ELSE UNCHANGED <<current_sink, playback_state>>
    /\ UNCHANGED <<audio_output, selected_device_name>>

ResumeClock(ps) ==
    LET folded ==
          IF ps.is_paused /\ ps.start_time # None /\ ps.pause_time # None
          THEN [ps EXCEPT
                  !.start_position = WrapU64(ps.start_position
                      + AsSecs(DurationSince(Unwrap(ps.pause_time),
                                             Unwrap(ps.start_time)))),
                  !.start_time = Some(now)]
          ELSE ps
    IN  [folded EXCEPT !.is_paused = FALSE, !.pause_time = None]

HandleResume ==
    /\ IF current_sink # None
       THEN /\ current_sink' = Some([Unwrap(current_sink) EXCEPT !.paused = FALSE])
            /\ playback_state' = ResumeClock(playback_state)
       ELSE UNCHANGED <<current_sink, playback_state>>
    /\ UNCHANGED <<audio_output, selected_device_name>>

\* mutant: Stop leaves the base position of the clock
StopClock_KeepsBase(ps) ==
    [ps EXCEPT !.start_time = None, !.is_paused = FALSE,
               !.pause_time = None, !.current_path = None]

StopClock(ps) ==
    [ps EXCEPT !.start_time = None, !.start_position = 0, !.is_paused = FALSE,
               !.pause_time = None, !.current_path = None]

HandleStop ==
    /\ current_sink' = None
    /\ playback_state' = StopClock(playback_state)
    /\ UNCHANGED <<audio_output, selected_device_name>>

HandleSetVolume(cmd) ==
    /\ current_sink' = IF current_sink # None
                       THEN Some([Unwrap(current_sink) EXCEPT !.volume = cmd.volume])
                       ELSE current_sink
    /\ UNCHANGED <<audio_output, selected_device_name, playback_state>>

HandleSetSpeed(cmd) ==
    /\ current_sink' = IF current_sink # None
                       THEN Some([Unwrap(current_sink) EXCEPT !.speed = cmd.speed])
                       ELSE current_sink
    /\ playback_state' = [playback_state EXCEPT !.speed = cmd.speed]
    /\ UNCHANGED <<audio_output, selected_device_name>>

\* mutant: the seek in place also ends the pause of the clock
FastSeekClock_Unpauses(ps, position) ==
    [ps EXCEPT !.start_time = Some(now), !.start_position = position,
               !.is_paused = FALSE, !.pause_time = None]

\* mutant: the seek in place moves the reference instant only
FastSeekClock_KeepsBase(ps, position) ==
    [ps EXCEPT !.start_time = Some(now)]

\* the clock after a seek in place, lines 430-433
FastSeekClock(ps, position) ==
    [ps EXCEPT !.start_time = Some(now), !.start_position = position]

\* the clock after the sink was rebuilt at `position`, lines 466-473
RebuildClock(ps, position) ==
    [ps EXCEPT !.start_time = Some(now), !.start_position = position,
               !.is_paused = FALSE, !.pause_time = None, !.is_finished = FALSE]

\* the volume a rebuilt sink gets, lines 436-440 and 489-493
SinkVolume(sink) == IF sink # None THEN Unwrap(sink).volume ELSE DefaultVolume

HandleSeek(cmd) ==
    IF playback_state.current_path = None
    THEN UNCHANGED <<audio_output, current_sink, selected_device_name,
                     playback_state>>
    ELSE
      LET path == Unwrap(playback_state.current_path) IN
      \E try_seek_ok \in IF Extension(path) # "flac" /\ current_sink # None
                         THEN BOOLEAN ELSE {FALSE} :
      \E opens1 \in IF ~try_seek_ok /\ audio_output THEN BOOLEAN ELSE {FALSE} :
      \E reopens \in IF try_seek_ok \/ opens1 THEN {FALSE} ELSE BOOLEAN :
      \E opens2 \in IF reopens THEN BOOLEAN ELSE {FALSE} :
      \E seeks \in IF opens1 \/ opens2 THEN SeekOutcomes(cmd.position)
                   ELSE {TRUE} :
        LET seek_success == /\ Extension(path) # "flac"
                            /\ current_sink # None
                            /\ try_seek_ok
            r == PlayWithRetry(path, SinkVolume(current_sink), cmd.position,
                               opens1, reopens, opens2, seeks)
        IN  IF seek_success
            THEN /\ current_sink' =
                       Some([Unwrap(current_sink) EXCEPT !.start = cmd.position])
                 /\ playback_state' = FastSeekClock(playback_state, cmd.position)
                 /\ UNCHANGED <<audio_output, selected_device_name>>
            ELSE /\ current_sink' = r.sink
                 /\ audio_output' = r.output
                 /\ playback_state' = IF r.sink # None
                                      THEN RebuildClock(playback_state, cmd.position)
                                      ELSE playback_state
                 /\ UNCHANGED selected_device_name

\* mutant: the restart on the new device begins the track again
DeviceClock_FromStart(ps, position) ==
    [ps EXCEPT !.start_time = Some(now), !.start_position = 0,
               !.is_paused = FALSE, !.pause_time = None]

\* the clock after playback was restarted on the new device, lines 510-514
DeviceClock(ps, position) ==
    [ps EXCEPT !.start_time = Some(now), !.start_position = position,
               !.is_paused = FALSE, !.pause_time = None]

HandleSetDevice(cmd) ==
    \E reopens \in BOOLEAN :
    \E opens \in IF reopens /\ playback_state.start_time # None
                    /\ ~playback_state.is_paused
                    /\ playback_state.current_path # None
                 THEN BOOLEAN ELSE {FALSE} :
    \E seeks \in IF opens THEN SeekOutcomes(get_elapsed(playback_state, now))
                 ELSE {TRUE} :
      LET was_playing == playback_state.start_time # None
                         /\ ~playback_state.is_paused
          current_path == playback_state.current_path
          current_position == get_elapsed(playback_state, now)
          restarted ==
            IF was_playing /\ current_path # None /\ reopens
            THEN play_file(Unwrap(current_path), SinkVolume(current_sink),
                           current_position, opens, seeks)
            ELSE None
      IN
      /\ selected_device_name' = IF cmd.name = "" THEN None ELSE Some(cmd.name)
      /\ audio_output' = reopens
      /\ current_sink' = restarted
      /\ playback_state' = IF restarted # None
                           THEN DeviceClock(playback_state, current_position)
                           ELSE playback_state

\* recv_timeout gave Ok(cmd): the oldest command is taken and handled
\* recv_timeout returns a command and its handler runs
EngineTake ==
    /\ Running
    /\ engine_pc = "recv"
    /\ queue # << >>
    /\ LET cmd == Head(queue) IN
         CASE cmd.type = "Play"      -> HandlePlay(cmd)
           [] cmd.type = "Pause"     -> HandlePause
           [] cmd.type = "Resume"    -> HandleResume
           [] cmd.type = "Stop"      -> HandleStop
           [] cmd.type = "SetVolume" -> HandleSetVolume(cmd)
           [] cmd.type = "SetSpeed"  -> HandleSetSpeed(cmd)
           [] cmd.type = "Seek"      -> HandleSeek(cmd)
           [] OTHER                  -> HandleSetDevice(cmd)
    /\ queue' = Tail(queue)
    /\ engine_pc' = "check"
    /\ UNCHANGED result
    /\ UNCHANGED <<session, now>>

EngineRecv == EngineTake /\ UNCHANGED calls

\* the Seek handler in two steps.  Line 408: it locks the clock, which it
\* holds while it reads the path and tries the seek in place
EngineSeekLocks ==
    /\ Running
    /\ engine_pc = "recv"
    /\ queue # << >>
    /\ Head(queue).type = "Seek"
    /\ CanLock("engine")
    /\ calls' = [calls EXCEPT !.engine_holds = TRUE]
    /\ UNCHANGED <<session, queue, engine, now, result>>

\* lines 409-475: the rest of the handler.  The guard is dropped at line
\* 430 or 441 (or at the end of the handler when no track is loaded) before
\* the clock is locked again at 431 or 467.
EngineSeekRuns ==
    /\ calls.engine_holds
    /\ EngineTake
    /\ calls' = [calls EXCEPT !.engine_holds = FALSE]

---------------------------------------------------------------------------
(* The environment: time passes, the playing sink runs out of samples *)

Tick ==
    /\ Running
    /\ now < MaxNow
    /\ now' = now + 1
    /\ UNCHANGED <<result, calls>>
    /\ UNCHANGED <<session, queue, engine>>

SinkDrains ==
    /\ Running
    /\ current_sink # None
    /\ ~Unwrap(current_sink).paused
    /\ ~Unwrap(current_sink).empty
    /\ current_sink' = Some([Unwrap(current_sink) EXCEPT !.empty = TRUE])
    /\ UNCHANGED <<result, calls>>
    /\ UNCHANGED <<session, queue, engine_pc, audio_output,
                   selected_device_name, playback_state, now>>

---------------------------------------------------------------------------
(* The system: callers call commands, the engine runs its loop.            *)
(*   Spec         transport on a loaded folder, with time passing          *)
(*   SpecSession  the same commands with the clock standing still          *)
(*   SpecNav      playlists replaced and navigated                         *)

Engine == EngineCheck \/ EngineRecv \/ EngineTimeout

\* the folder the transport specifications load: a track of known and a
\* track of unknown duration
Folder == SubSeq(Library, 1, 2)
FolderIndexes == 0 .. Len(Folder)

Transport ==
    \/ load_folder(Folder)
    \/ \E index \in FolderIndexes : play_track(index, None)
    \/ toggle_pause
    \/ stop
    \/ \E position \in SeekInputs : seek(position)
    \/ \E delta \in DeltaInputs : seek_relative(delta)

Next ==
    \/ Transport
    \/ Engine
    \/ Tick

Spec == Init /\ [][Next]_vars

NextSession ==
    \/ Transport
    \/ next_track
    \/ prev_track
    \/ Engine

SpecSession == Init /\ [][NextSession]_vars

NextNav ==
    \/ \E paths \in PlaylistInputs : set_playlist(paths)
    \/ \E tracks \in PlaylistInputs : load_folder(tracks)
    \/ \E tracks \in PlaylistInputs : load_playlist(tracks)
    \/ \E index \in IndexInputs : play_track(index, None)
    \/ next_track
    \/ prev_track
    \/ stop
    \/ Engine

SpecNav == Init /\ [][NextNav]_vars

---------------------------------------------------------------------------
(* Claims about playlist navigation, under SpecNav *)

TrackIndex(r) == Unwrap(r.track).index

\* C1: on a playlist of length N > 0 with current index i, next() returns
\* and selects (i+1) mod N and previous() returns and selects (i-1+N) mod N.
\* Refuted: previous() panics when i - 1 >= N, which set_playlist makes
\* possible by replacing the playlist with a shorter one.
C1_NextPrevCyclic ==
    [][ /\ (next_track /\ Len(playlist) > 0) =>
              /\ result'.status = "ok"
              /\ TrackIndex(result') = (current_index + 1) % Len(playlist)
              /\ current_index' = (current_index + 1) % Len(playlist)
        /\ (prev_track /\ Len(playlist) > 0) =>
              /\ result'.status = "ok"
              /\ TrackIndex(result') =
                    (current_index - 1 + Len(playlist)) % Len(playlist)
              /\ current_index' =
                    (current_index - 1 + Len(playlist)) % Len(playlist)
      ]_vars

\* C2: next() and previous() on an empty playlist return the error
\* "Playlist is empty", send nothing and change no field of the session.
C2_EmptyPlaylistFails ==
    [][ ((next_track \/ prev_track) /\ Len(playlist) = 0) =>
           /\ result'.status = "err"
           /\ result'.err = EmptyPlaylist
           /\ UNCHANGED <<session, queue>>
      ]_vars

\* C2 witness: next/previous has just failed on an emptied playlist while a
\* track was playing at a non-zero index with a command still in flight.
C2_Witness ==
    /\ result.op \in {"next_track", "prev_track"}
    /\ result.err = EmptyPlaylist
    /\ playlist = << >>
    /\ is_playing
    /\ current_index > 0
    /\ queue # << >>

\* C3: play(index) with index >= playlist length returns the error
\* "Invalid track index", sends nothing and changes no field of the session.
C3_InvalidIndexFails ==
    [][ \A index \in IndexInputs :
          (index >= Len(playlist) /\ play_track(index, None)) =>
             /\ result'.status = "err"
             /\ result'.err = InvalidIndex
             /\ UNCHANGED <<session, queue>>
      ]_vars

\* C3 witness: play has just failed on a non-empty playlist while another
\* track was playing, its Play command still queued.
C3_Witness ==
    /\ result.op = "play_track"
    /\ result.err = InvalidIndex
    /\ Len(playlist) > 0
    /\ is_playing
    /\ current_index > 0
    /\ queue # << >>

---------------------------------------------------------------------------
(* Claims about the transport commands, under SpecSession *)

LastSent == queue[Len(queue)]

\* C4: togglePause(), seek() and seekRelative() called while no track is
\* playing for the session (at the start, or after stop()) return the error
\* "No track is playing", send nothing and leave status() as it was.
C4_NothingPlayingFails ==
    [][ ( /\ ~is_playing
          /\ \/ toggle_pause
             \/ \E position \in SeekInputs : seek(position)
             \/ \E delta \in DeltaInputs : seek_relative(delta) ) =>
           /\ result'.status = "err"
           /\ result'.err = NothingPlaying
           /\ UNCHANGED <<session, queue>>
           /\ get_status' = get_status
      ]_vars

\* C4 witness: one of the three has failed after a stop() whose Stop command
\* the engine has not taken yet, the stopped track still loaded.
C4_Witness ==
    /\ result.op \in {"seek", "seek_relative", "toggle_pause"}
    /\ result.err = NothingPlaying
    /\ queue # << >>
    /\ LastSent = CmdStop
    /\ playback_state.current_path # None

\* C5: seekRelative(delta) at elapsed position E on a track of known
\* duration D returns clamp(E + delta, 0, D) and sends Seek of that value.
\* Refuted: the elapsed position is cast to i64, and a position of the top
\* half of the u64 range turns negative; seek_relative itself sends such a
\* position, u64::MAX, when the duration is unknown.
C5_SeekRelativeClamps ==
    [][ \A delta \in DeltaInputs :
          (seek_relative(delta) /\ is_playing /\ current_duration # None) =>
             LET expect == Clamp(get_elapsed(playback_state, now) + delta,
                                 0, Unwrap(current_duration)) IN
             /\ result'.status = "ok"
             /\ result'.value = expect
             /\ queue' = Append(queue, CmdSeek(expect))
      ]_vars

\* C6: seek(p) while a track is playing returns min(p, D) when the duration
\* D is known and p when it is not, and sends Seek of the value it returns.
C6_SeekClamps ==
    [][ \A position \in SeekInputs :
          (seek(position) /\ is_playing) =>
             LET expect == IF current_duration = None THEN position
                           ELSE Min(position, Unwrap(current_duration)) IN
             /\ result'.status = "ok"
             /\ result'.value = expect
             /\ queue' = Append(queue, CmdSeek(expect))
      ]_vars

\* C6 witness: a seek beyond the end of a track of known duration has just
\* returned the duration and queued Seek(duration).
C6_Witness ==
    /\ result.op = "seek"
    /\ result.status = "ok"
    /\ current_duration = Some(30)
    /\ result.value = 30
    /\ queue # << >>
    /\ LastSent = CmdSeek(30)

\* C10: with a track playing, togglePause() returns the negation of
\* isPaused, stores it, and sends Pause when it is true and Resume when it is
\* false; a call that directly follows another returns the negation of what
\* that one returned.
C10_ToggleAlternates ==
    [][ (toggle_pause /\ is_playing) =>
           /\ result'.status = "ok"
           /\ result'.flag = ~is_paused
           /\ is_paused' = ~is_paused
           /\ queue' = Append(queue, IF is_paused' THEN CmdPause ELSE CmdResume)
           /\ (result.op = "toggle_pause" /\ result.status = "ok")
                 => result'.flag = ~result.flag
      ]_vars

\* C10 witness: two togglePause() calls in a row after play: Pause then
\* Resume are queued and the session is not paused.
C10_Witness ==
    /\ result.op = "toggle_pause"
    /\ result.status = "ok"
    /\ result.flag = FALSE
    /\ is_playing /\ ~is_paused
    /\ Len(queue) >= 2
    /\ queue[Len(queue) - 1] = CmdPause
    /\ LastSent = CmdResume

---------------------------------------------------------------------------
(* The scenario of two tracks A (30 s) and B (45 s): one caller calls      *)
(* set_playlist, play(0), next(), seek(40), seekRelative(10) in this       *)
(* order, each call after the previous one returned; the engine and the    *)
(* clock run freely in between                                             *)

ScenarioPlaylist == << Library[1], Library[3] >>

Scenario ==
    \/ result.op = "none" /\ set_playlist(ScenarioPlaylist)
    \/ result.op = "set_playlist" /\ play_track(0, None)
    \/ result.op = "play_track" /\ next_track
    \/ result.op = "next_track" /\ seek(40)
    \/ result.op = "seek" /\ seek_relative(10)

NextScenario ==
    \/ Scenario
    \/ Engine
    \/ Tick

SpecScenario == Init /\ [][NextScenario]_vars

Elapsed == get_elapsed(playback_state, now)

\* the engine has taken every command sent and its last one, the Seek,
\* left a sink: Seek(40) was applied
SeekApplied == queue = << >> /\ current_sink # None

\* the engine applies the Seek that seekRelative(10) sent as 45
AppliesLastSeek ==
    /\ EngineRecv
    /\ result.op = "seek_relative"
    /\ Len(queue) = 1
    /\ current_sink' # None

\* C7 as stated: in the scenario, play(0) shows index 0 and duration 30,
\* next() shows index 1 and duration 45, and seekRelative(10) after seek(40)
\* gives 45, which is the elapsed position once its Seek is applied, however
\* the calls interleave with the engine.  Refuted: seekRelative reads the
\* elapsed position of the engine, which is not 40 before Seek(40) is taken.
C7_ScenarioAnyInterleaving ==
    [][ /\ (result.op = "set_playlist" /\ play_track(0, None)) =>
              /\ get_status'.current_index = 0
              /\ get_status'.duration = Some(30)
        /\ (result.op = "play_track" /\ next_track) =>
              /\ get_status'.current_index = 1
              /\ get_status'.duration = Some(45)
        /\ (result.op = "seek" /\ seek_relative(10)) =>
              /\ result'.value = 45
              /\ queue' = Append(queue, CmdSeek(45))
        /\ AppliesLastSeek => Elapsed' = 45
      ]_vars

\* C7 restricted: the same, with seekRelative(10) giving min(E + 10, 45) for
\* the elapsed position E at the time of the call, which is 45 when Seek(40)
\* was applied before the call.
C7_ScenarioSeekApplied ==
    [][ /\ (result.op = "set_playlist" /\ play_track(0, None)) =>
              /\ get_status'.current_index = 0
              /\ get_status'.duration = Some(30)
        /\ (result.op = "play_track" /\ next_track) =>
              /\ get_status'.current_index = 1
              /\ get_status'.duration = Some(45)
        /\ (result.op = "seek" /\ seek_relative(10)) =>
              /\ result'.value = Min(Elapsed + 10, 45)
              /\ queue' = Append(queue, CmdSeek(result'.value))
              /\ SeekApplied => result'.value = 45
        /\ (AppliesLastSeek /\ result.value = 45) => Elapsed' = 45
      ]_vars

\* C7 witness: the scenario has run to its end on track B: seekRelative
\* returned 45 and the engine has applied Seek(45).
C7_Witness ==
    /\ result.op = "seek_relative"
    /\ result.value = 45
    /\ queue = << >>
    /\ current_index = 1
    /\ current_sink # None
    /\ playback_state.current_path = Some(Library[3])
    /\ playback_state.start_position = 45

---------------------------------------------------------------------------
(* The clock of the engine, under SpecClock: two tracks of known duration, *)
(* a FLAC file (always rebuilt on a seek) and an MP3 file, with time       *)
(* passing between the steps                                               *)

NextClock ==
    \/ load_folder(ScenarioPlaylist)
    \/ \E index \in {0, 1} : play_track(index, None)
    \/ toggle_pause
    \/ \E position \in SeekInputs : seek(position)
    \/ Engine
    \/ Tick

SpecClock == Init /\ [][NextClock]_vars

\* the engine takes a Seek(t) while a track is loaded whose duration is
\* known and at least t
TakesSeekInRange ==
    /\ EngineRecv
    /\ Head(queue).type = "Seek"
    /\ playback_state.current_path # None
    /\ get_audio_duration(Unwrap(playback_state.current_path)) # None
    /\ Head(queue).position <=
          Unwrap(get_audio_duration(Unwrap(playback_state.current_path)))

Within1(a, b) == a - b <= 1 /\ b - a <= 1

\* C8 as stated: once the engine has processed Seek(t) for a loaded track
\* with t in [0, duration], the elapsed time is within 1 s of t at that
\* instant, on either path, paused or not.  Refuted: when the rebuild path
\* cannot open the source the clock is left as it was.
C8_SeekSetsElapsed ==
    [][ TakesSeekInRange => Within1(Elapsed', Head(queue).position) ]_vars

\* C8 restricted: the same when the seek succeeded, that is when the engine
\* has a sink after the Seek (the sink it sought in place, or the rebuilt one).
C8_SeekSetsElapsedOnSuccess ==
    [][ (TakesSeekInRange /\ current_sink' # None) =>
           Within1(Elapsed', Head(queue).position) ]_vars

\* C8 witness: a seek in place to 40 s on a paused clock, some time after
\* the pause: the reference instant is later than the pause instant and the
\* elapsed time is 40.
C8_Witness ==
    /\ playback_state.is_paused
    /\ playback_state.start_time # None
    /\ playback_state.pause_time # None
    /\ Unwrap(playback_state.start_time) > Unwrap(playback_state.pause_time)
    /\ playback_state.start_position = 40
    /\ current_sink # None
    /\ Elapsed = 40

---------------------------------------------------------------------------
(* The clock under Spec, where seek_relative is called too *)

\* the engine takes a command that repositions the clock
ClockRepositioned ==
    /\ EngineRecv
    /\ Head(queue).type \in {"Play", "Seek", "Stop", "SetDevice"}

FrozenElapsed(ps) ==
    IF ps.start_time # None /\ ps.pause_time # None
    THEN ps.start_position
            + AsSecs(DurationSince(Unwrap(ps.pause_time), Unwrap(ps.start_time)))
    ELSE 0

\* C9: over any step that is not the engine taking Play, Seek, Stop or a
\* device switch, the elapsed time does not decrease while the clock is not
\* paused, and while it is paused it stays at
\* start_position + (pause_time - start_time).  Refuted: the sum wraps at
\* the end of the u64 range, where seek_relative puts start_position when
\* the duration is unknown.
C9_ElapsedMonotonicFrozen ==
    [][ ~ClockRepositioned =>
          /\ (~playback_state.is_paused /\ ~playback_state'.is_paused) =>
                Elapsed' >= Elapsed
          /\ (playback_state.is_paused /\ playback_state'.is_paused) =>
                /\ Elapsed' = Elapsed
                /\ Elapsed = FrozenElapsed(playback_state)
      ]_vars

---------------------------------------------------------------------------
(* Playback of the loaded folder with the volume changed, tracks started   *)
(* at an offset and sinks running out of samples: SpecPlayback             *)

NextPlayback ==
    \/ load_folder(Folder)
    \/ \E index \in FolderIndexes, skip_secs \in SkipInputs :
          play_track(index, skip_secs)
    \/ \E v \in VolumeInputs : set_volume(v)
    \/ toggle_pause
    \/ stop
    \/ Engine
    \/ SinkDrains

SpecPlayback == Init /\ [][NextPlayback]_vars

\* C11: setVolume(x) returns x clamped to [0.0, 1.0] (0 .. 100 hundredths),
\* stores it so that status() reports it, and sends SetVolume of the clamped
\* value; the volume of the session is within [0.0, 1.0] in every state.
C11_SetVolumeClamps ==
    /\ [](volume >= 0 /\ volume <= 100)
    /\ [][ \A v \in VolumeInputs :
             set_volume(v) =>
                LET expect == IF v < 0 THEN 0 ELSE IF v > 100 THEN 100 ELSE v IN
                /\ result'.status = "ok"
                /\ result'.value = expect
                /\ get_status'.volume = expect
                /\ queue' = Append(queue, CmdSetVolume(expect))
         ]_vars

\* C11 witness: a volume below the range was set while a track plays: 0 was
\* returned, stored and sent, the sink still at the volume it was given.
C11_Witness ==
    /\ result.op = "set_volume"
    /\ result.value = 0
    /\ volume = 0
    /\ queue # << >>
    /\ LastSent = CmdSetVolume(0)
    /\ current_sink # None
    /\ Unwrap(current_sink).volume > 0

---------------------------------------------------------------------------
(* The queue between the callers and the engine, under SpecSession *)

\* what the engine's step shows of the command at the head of the queue
AppliesHead ==
    LET cmd == Head(queue) IN
    /\ cmd.type = "Play" /\ current_sink' # None
          => playback_state'.current_path = Some(cmd.path)
    /\ cmd.type = "Pause" /\ current_sink # None
          => playback_state'.is_paused /\ Unwrap(current_sink').paused
    /\ cmd.type = "Resume" /\ current_sink # None
          => ~playback_state'.is_paused /\ ~Unwrap(current_sink').paused
    /\ cmd.type = "Stop"
          => current_sink' = None /\ playback_state'.current_path = None
    /\ cmd.type = "Seek" /\ current_sink' # None
          => playback_state'.start_position = cmd.position

\* C12: every command sent is taken by the engine once, one at a time and
\* in the order of sending: a step of a caller leaves the queue alone or adds
\* one command behind those that wait, a step of the engine that handles a
\* command removes the oldest one and applies that one, and nothing else
\* changes the queue or the sink.
C12_QueueFifo ==
    [][ /\ EngineRecv => queue' = Tail(queue) /\ AppliesHead
        /\ ~EngineRecv =>
              /\ \/ queue' = queue
                 \/ /\ Len(queue') = Len(queue) + 1
                    /\ SubSeq(queue', 1, Len(queue)) = queue
              /\ UNCHANGED <<current_sink, audio_output>>
      ]_vars

\* C12 witness: Seek then Pause were sent for the FLAC track and both were
\* applied in this order: the rebuilt sink, which starts unpaused at 30 s,
\* is paused.
C12_Witness ==
    /\ queue = << >>
    /\ result.op = "toggle_pause"
    /\ playback_state.current_path = Some(Library[1])
    /\ playback_state.start_position = 30
    /\ playback_state.is_paused
    /\ current_sink # None
    /\ Unwrap(current_sink).paused

---------------------------------------------------------------------------
(* What the session shows when a track is started, under SpecSession *)

\* the call returned track `index` and status() shows it as playing, the
\* Play command only queued
ShowsStarted(index) ==
    /\ result'.status = "ok"
    /\ TrackIndex(result') = index
    /\ get_status'.current_index = index
    /\ get_status'.is_playing
    /\ ~get_status'.is_paused
    /\ queue' = Append(queue, CmdPlay(playlist[index + 1], volume, 0))
    /\ UNCHANGED engine

\* C13: a successful play(i), next() or previous() has set currentIndex to
\* the selected index, isPlaying to true and isPaused to false when it
\* returns, before the engine has taken the Play command.
C13_StartShowsAtOnce ==
    [][ /\ \A index \in FolderIndexes :
              (index < Len(playlist) /\ play_track(index, None)) =>
                 ShowsStarted(index)
        /\ (next_track /\ Len(playlist) > 0) =>
              ShowsStarted((current_index + 1) % Len(playlist))
        /\ (prev_track /\ result'.status = "ok") =>
              ShowsStarted(TrackIndex(result'))
      ]_vars

\* C13 witness: next() or previous() has selected track 1 on a paused
\* session: the session is not paused any more, while the Pause sent before
\* still waits in front of the Play.
C13_Witness ==
    /\ result.op \in {"next_track", "prev_track"}
    /\ result.status = "ok"
    /\ current_index = 1
    /\ is_playing /\ ~is_paused
    /\ Len(queue) = 2
    /\ queue[1] = CmdPause
    /\ queue[2].type = "Play"

---------------------------------------------------------------------------
(* A play request whose file does not open: one caller loads the folder,   *)
(* plays track 0, pauses it and, once the engine has done all that, plays  *)
(* track 1                                                                 *)

PlayFails ==
    \/ result.op = "none" /\ load_folder(Folder)
    \/ result.op = "load_folder" /\ play_track(0, None)
    \/ result.op = "play_track" /\ current_index = 0 /\ toggle_pause
    \/ /\ result.op = "toggle_pause"
       /\ queue = << >>
       /\ current_sink # None
       /\ play_track(1, None)

NextPlayFails ==
    \/ PlayFails
    \/ Engine
    \/ Tick

SpecPlayFails == Init /\ [][NextPlayFails]_vars

\* the engine takes the Play of track 1 and cannot open the file
SecondPlayFails ==
    /\ EngineRecv
    /\ Head(queue) = CmdPlay(Folder[2], volume, 0)
    /\ current_sink' = None

\* C14: when the engine cannot open the file of a play request, status()
\* still shows what it showed before the request: here track 0 of the
\* folder, playing and paused.  Refuted: the command has stored the new
\* track before the engine tries to open it, and nothing takes that back.
C14_FailedPlayKeepsStatus ==
    [][ SecondPlayFails =>
           /\ get_status'.current_index = 0
           /\ get_status'.current_track = Some(FileName(Folder[1]))
           /\ get_status'.is_playing
           /\ get_status'.is_paused
      ]_vars

---------------------------------------------------------------------------
(* The current index under SpecNav *)

\* C15: whenever the playlist is not empty the current index is a position
\* of the playlist.  Refuted: set_playlist stores a shorter playlist and
\* leaves the current index where it was.
C15_IndexInBounds ==
    Len(playlist) > 0 => (current_index >= 0 /\ current_index < Len(playlist))

---------------------------------------------------------------------------
(* Stop, under SpecSession *)

TakesStop == EngineRecv /\ Head(queue).type = "Stop"

\* C17: stop() always returns Ok and sends Stop; once the engine has taken
\* the Stop there is no sink and no loaded path, the clock has no reference
\* instant, base position 0, is not paused, and status() reports elapsed 0.
C17_StopResets ==
    [][ /\ stop => /\ result'.status = "ok"
                   /\ queue' = Append(queue, CmdStop)
        /\ TakesStop =>
              /\ current_sink' = None
              /\ playback_state'.current_path = None
              /\ playback_state'.start_time = None
              /\ playback_state'.start_position = 0
              /\ ~playback_state'.is_paused
              /\ playback_state'.pause_time = None
              /\ get_status'.elapsed = 0
      ]_vars

\* C17 witness: stop() was the last call on a session that had started the
\* 30 s track, and the engine has just taken its Stop.
C17_Witness ==
    /\ result.op = "stop"
    /\ result.status = "ok"
    /\ current_duration = Some(30)
    /\ ~is_playing
    /\ queue = << >>
    /\ engine_pc = "check"
    /\ audio_output
    /\ current_sink = None
    /\ playback_state.current_path = None
    /\ playback_state.start_time = None

---------------------------------------------------------------------------
(* Play and Seek that cannot open the file, under SpecSession *)

\* the engine takes a Play or a Seek and has no sink afterwards: the file
\* did not open
OpenFails ==
    /\ EngineRecv
    /\ Head(queue).type \in {"Play", "Seek"}
    /\ current_sink' = None

\* C18: a Play, or a Seek on the rebuild path, that cannot open the file
\* leaves the engine as it was: the sink that was active is still active and
\* the clock, the loaded path and the finished flag are unchanged.  Refuted:
\* both handlers stop and drop the active sink before they try to open.
C18_FailedOpenKeepsEngine ==
    [][ OpenFails => UNCHANGED <<current_sink, playback_state>> ]_vars

---------------------------------------------------------------------------
(* Tracks started at an offset and at a changed volume while time passes   *)
(* and sinks run out of samples: SpecStart                                 *)

\* the first track is played from its start, the second from 10 s
NextStart ==
    \/ load_folder(Folder)
    \/ play_track(0, None)
    \/ play_track(1, Some(10))
    \/ set_volume(50)
    \/ toggle_pause
    \/ Engine
    \/ SinkDrains
    \/ Tick

SpecStart == Init /\ [][NextStart]_vars

\* the engine takes a Play and the source opens
PlayOpens ==
    /\ EngineRecv
    /\ Head(queue).type = "Play"
    /\ current_sink' # None

\* C19: when the engine takes Play(path, volume, offset) and the source
\* opens, the active sink is a fresh sink for path at that volume (playing,
\* not drained), the clock has reference instant now, base position offset,
\* is not paused and has no pause instant, the loaded path is path and the
\* finished flag is false.
C19_PlayInstalls ==
    [][ PlayOpens =>
           LET cmd == Head(queue)
               sink == Unwrap(current_sink') IN
           /\ sink.path = cmd.path
           /\ sink.volume = cmd.volume
           /\ ~sink.paused
           /\ ~sink.empty
           /\ playback_state'.start_time = Some(now)
           /\ playback_state'.start_position = cmd.skip
           /\ ~playback_state'.is_paused
           /\ playback_state'.pause_time = None
           /\ playback_state'.current_path = Some(cmd.path)
           /\ ~playback_state'.is_finished
      ]_vars

\* C19 witness: some time after the start the engine has just taken a Play
\* of the second track at offset 10 and volume 0.5.
C19_Witness ==
    /\ queue = << >>
    /\ engine_pc = "check"
    /\ now > 0
    /\ current_sink # None
    /\ Unwrap(current_sink).path = Folder[2]
    /\ Unwrap(current_sink).volume = 50
    /\ playback_state.current_path = Some(Folder[2])
    /\ playback_state.start_time = Some(now)
    /\ playback_state.start_position = 10
    /\ ~playback_state.is_paused

---------------------------------------------------------------------------
(* Stop after the track ran to its end, under SpecPlayback *)

\* C20: after the engine has taken Stop the finished flag is false, so
\* status().isFinished is false after a stop() that followed a track which
\* ran to its end.  Refuted: the Stop handler does not touch the flag.
C20_StopClearsFinished ==
    [][ TakesStop => /\ ~playback_state'.is_finished
                     /\ ~get_status'.is_finished ]_vars

---------------------------------------------------------------------------
(* status() while stop() runs on another thread.  The commands are taken   *)
(* lock by lock: get_status field by field, keeping the guards of the      *)
(* session fields it has read, and stop write by write.  The other         *)
(* commands run while neither is part-way through.                         *)

CallsIdle == calls.get_status.pc = 0 /\ calls.stop = 0

NextStatus ==
    \/ CallsIdle /\ load_folder(Folder)
    \/ CallsIdle /\ \E index \in FolderIndexes : play_track(index, None)
    \/ CallsIdle /\ toggle_pause
    \/ get_status_call
    \/ get_status_read
    \/ stop_send
    \/ stop_is_playing
    \/ stop_is_paused
    \/ stop_current_track
    \/ Engine

SpecStatus == Init /\ [][NextStatus]_vars

\* the session fields of a PlayerStatus
SessionView(st) ==
    [is_playing |-> st.is_playing,
     is_paused |-> st.is_paused,
     current_track |-> st.current_track,
     current_index |-> st.current_index,
     volume |-> st.volume,
     playlist_length |-> st.playlist_length,
     duration |-> st.duration]

\* C16: the session fields of the PlayerStatus that status() returns
\* (isPlaying, isPaused, current track, current index, volume, playlist
\* length, duration) are together the session state of one instant between
\* the call and the return, even when stop() runs concurrently.
C16_StatusIsSnapshot ==
    (result.op = "get_status" /\ calls.get_status.pc = 0)
        => SessionView(calls.get_status.snap) \in calls.get_status.seen

\* status() returned while stop() was between its writes: it reports the
\* session as it was after stop's first write, not playing and with the
\* track still named, and stop is kept waiting for a lock status() held
C16_Witness ==
    /\ result.op = "get_status"
    /\ calls.get_status.pc = 0
    /\ calls.stop \in { 2, 3 }
    /\ Cardinality(calls.get_status.seen) >= 2
    /\ ~calls.get_status.snap.is_playing
    /\ calls.get_status.snap.current_track # None

---------------------------------------------------------------------------
(* The engine's handlers, one by one *)

\* C21: the finished flag becomes true only in the engine's check, and only
\* when there is a sink, the sink is empty and the clock has a reference
\* instant; the step then changes nothing else of the clock.  A check made
\* when the flag is already true, when there is no sink or when no track is
\* loaded leaves the clock as it is.
C21_FinishedOnlyByCheck ==
    [][ /\ (~playback_state.is_finished /\ playback_state'.is_finished)
            => /\ EngineCheck
               /\ current_sink # None
               /\ Unwrap(current_sink).empty
               /\ playback_state.start_time # None
               /\ playback_state' =
                      [playback_state EXCEPT !.is_finished = TRUE]
        /\ (EngineCheck /\ (\/ playback_state.is_finished
                            \/ current_sink = None
                            \/ playback_state.start_time = None))
            => UNCHANGED playback_state
      ]_vars

\* the engine has marked the drained sink of the loaded track as finished
C21_Witness ==
    /\ playback_state.is_finished
    /\ current_sink # None
    /\ Unwrap(current_sink).empty
    /\ playback_state.start_time # None
    /\ engine_pc = "recv"

\* The engine thread under fair scheduling: it is never starved, so each
\* turn of its loop (check, then recv_timeout of at most 100 ms) is taken.
NextDrain ==
    \/ load_folder(Folder)
    \/ \E index \in FolderIndexes : play_track(index, None)
    \/ toggle_pause
    \/ stop
    \/ Engine
    \/ SinkDrains

SpecDrain == Init /\ [][NextDrain]_vars /\ WF_vars(Engine)

\* the sink of a loaded track has drained and the engine has nothing to take
Drained ==
    /\ current_sink # None
    /\ Unwrap(current_sink).empty
    /\ playback_state.start_time # None
    /\ queue = << >>

\* C22: when the sink of a loaded track has drained and the queue is empty,
\* the engine eventually sets is_finished, unless a further command is sent
\* first: the wait for a command times out and the check runs again.
C22_DrainedEventuallyFinished ==
    Drained ~> (playback_state.is_finished \/ queue # << >>)

\* the sink drained while the engine was waiting on an empty queue: only
\* the timeout brings the engine back to its check
C22_Witness ==
    /\ Drained
    /\ ~playback_state.is_finished
    /\ engine_pc = "recv"

TakesPause == EngineRecv /\ Head(queue).type = "Pause"

\* C23: when the engine takes Pause and there is a sink, the clock becomes
\* paused with pause instant now, and its reference instant and base
\* position stay as they were; when there is no sink the clock is unchanged.
C23_PauseFreezesClock ==
    [][ TakesPause =>
          IF current_sink # None
          THEN /\ playback_state'.is_paused
               /\ playback_state'.pause_time = Some(now)
               /\ playback_state'.start_time = playback_state.start_time
               /\ playback_state'.start_position
                      = playback_state.start_position
          ELSE UNCHANGED playback_state
      ]_vars

\* a track that had played for some time was paused a moment ago
C23_Witness ==
    /\ current_sink # None
    /\ Unwrap(current_sink).paused
    /\ playback_state.is_paused
    /\ playback_state.pause_time = Some(now)
    /\ playback_state.start_time # None
    /\ playback_state.start_time # Some(now)
    /\ engine_pc = "check"

---------------------------------------------------------------------------
(* Pause, resume and the output device, with time passing *)

NextDevice ==
    \/ load_folder(Folder)
    \/ \E index \in FolderIndexes : play_track(index, None)
    \/ toggle_pause
    \/ set_volume(50)
    \/ \E device_name \in DeviceInputs : set_audio_device(device_name)
    \/ Engine
    \/ Tick

SpecDevice == Init /\ [][NextDevice]_vars

TakesResume == EngineRecv /\ Head(queue).type = "Resume"

\* what Resume does to a paused clock according to the claim
ResumeFolds ==
    /\ playback_state'.start_position =
           WrapU64(playback_state.start_position
               + AsSecs(DurationSince(Unwrap(playback_state.pause_time),
                                      Unwrap(playback_state.start_time))))
    /\ playback_state'.start_time = Some(now)
    /\ ~playback_state'.is_paused
    /\ playback_state'.pause_time = None
    /\ get_elapsed(playback_state', now') = get_elapsed(playback_state, now)

\* C24: when the engine takes Resume and the clock is paused, the time
\* played before the pause is added to the base position, the reference
\* instant becomes now, paused and the pause instant are cleared, and the
\* elapsed value right after the Resume is the value that was frozen during
\* the pause.
C24_ResumeFolds ==
    [][ (TakesResume /\ playback_state.is_paused) => ResumeFolds ]_vars

\* the same for a paused clock whose sink is still there
C24_ResumeFoldsWithSink ==
    [][ (TakesResume /\ playback_state.is_paused /\ current_sink # None)
            => ResumeFolds ]_vars

\* a pause that lasted some time has just been ended by Resume
C24_Resumed ==
    /\ result.op = "toggle_pause"
    /\ ~result.flag
    /\ queue = << >>
    /\ engine_pc = "check"
    /\ current_sink # None
    /\ ~playback_state.is_paused
    /\ playback_state.start_time = Some(now)
    /\ now > 0

---------------------------------------------------------------------------
(* Seek, path by path, under SpecClock *)

\* the engine takes a Seek while a track is loaded
TakesSeek ==
    /\ EngineRecv
    /\ Head(queue).type = "Seek"
    /\ playback_state.current_path # None

\* the sink was sought in place: it is the sink it was, now at `position`,
\* and of the clock only the reference instant and the base position moved
SoughtInPlace(position) ==
    /\ current_sink # None
    /\ current_sink' =
           Some([Unwrap(current_sink) EXCEPT !.start = position])
    /\ playback_state'.start_time = Some(now)
    /\ playback_state'.start_position = position
    /\ playback_state'.is_paused = playback_state.is_paused
    /\ playback_state'.pause_time = playback_state.pause_time
    /\ playback_state'.current_path = playback_state.current_path
    /\ playback_state'.is_finished = playback_state.is_finished

\* the old sink was discarded: there is none now, or a fresh one
SinkReplaced ==
    \/ current_sink' = None
    \/ /\ ~Unwrap(current_sink').paused
       /\ ~Unwrap(current_sink').empty
       /\ Unwrap(current_sink').speed = DefaultSpeed
       /\ ~playback_state'.is_paused
       /\ playback_state'.pause_time = None
       /\ ~playback_state'.is_finished

\* C25: a Seek(target) on a track that is not FLAC either leaves the fast
\* path (the sink is discarded) or succeeds on it, and then the sink is the
\* same sink and only the reference instant (now) and the base position
\* (target) of the clock have changed: paused, the pause instant, the loaded
\* path and the finished flag are as before.
C25_FastSeekFrame ==
    [][ (TakesSeek /\ Extension(Unwrap(playback_state.current_path)) # "flac"
                   /\ current_sink # None)
            => (SoughtInPlace(Head(queue).position) \/ SinkReplaced)
      ]_vars

\* the paused sink of the mp3 track was sought in place to 40 s, some time
\* after the pause
C25_Witness ==
    /\ playback_state.current_path = Some("/m/c.mp3")
    /\ current_sink # None
    /\ Unwrap(current_sink).paused
    /\ Unwrap(current_sink).start = 40
    /\ playback_state.is_paused
    /\ playback_state.start_position = 40
    /\ playback_state.start_time = Some(now)
    /\ playback_state.pause_time # None
    /\ playback_state.pause_time # Some(now)
    /\ engine_pc = "check"

\* the engine takes a Seek on the rebuild path and the source opens: the
\* track is FLAC, or there was no sink to seek in place, or the paused sink
\* was replaced by one that plays
SeekRebuilds ==
    /\ TakesSeek
    /\ current_sink' # None
    /\ \/ Extension(Unwrap(playback_state.current_path)) = "flac"
       \/ current_sink = None
       \/ Unwrap(current_sink).paused /\ ~Unwrap(current_sink').paused

\* the clock and the volume after a rebuild
RebuiltClock(position) ==
    /\ Unwrap(current_sink').path = Unwrap(playback_state.current_path)
    /\ Unwrap(current_sink').volume = SinkVolume(current_sink)
    /\ playback_state'.start_time = Some(now)
    /\ playback_state'.start_position = position
    /\ ~playback_state'.is_paused
    /\ ~playback_state'.is_finished

\* C26: when a Seek(target) rebuilds the sink and the source opens, the new
\* sink plays the same path from target at the volume of the old sink, and
\* the clock has reference instant now, base position target, is not paused
\* and not finished.
C26_RebuildInstalls ==
    [][ SeekRebuilds =>
          /\ Unwrap(current_sink').start = Head(queue).position
          /\ RebuiltClock(Head(queue).position)
      ]_vars

\* the same without the position of the new sink
C26_RebuildSetsClock ==
    [][ SeekRebuilds => RebuiltClock(Head(queue).position) ]_vars

\* the sink of the FLAC track was rebuilt at 30 s (seek(40) clamped to the
\* duration)
C26_Rebuilt ==
    /\ playback_state.current_path = Some("/m/a.flac")
    /\ current_sink # None
    /\ playback_state.start_position = 30
    /\ result.op = "seek"
    /\ queue = << >>
    /\ engine_pc = "check"

---------------------------------------------------------------------------
(* The output device, under SpecDevice *)

\* the engine takes SetDevice while playback is active, and the new output
\* and the file both open
DeviceRestarts ==
    /\ EngineRecv
    /\ Head(queue).type = "SetDevice"
    /\ playback_state.start_time # None
    /\ ~playback_state.is_paused
    /\ audio_output'
    /\ current_sink' # None

\* C27: when the engine takes SetDevice while playback is active (the clock
\* has a reference instant and is not paused) and the new output and the
\* file open, the same track plays afterwards on a new sink that has the
\* volume of the old sink, and the clock is not paused, with reference
\* instant now and base position the elapsed time read before the switch.
C27_DeviceSwitchRestarts ==
    [][ DeviceRestarts =>
          /\ Some(Unwrap(current_sink').path) = playback_state.current_path
          /\ playback_state'.current_path = playback_state.current_path
          /\ current_sink # None =>
                Unwrap(current_sink').volume = Unwrap(current_sink).volume
          /\ ~Unwrap(current_sink').paused
          /\ ~playback_state'.is_paused
          /\ playback_state'.start_time = Some(now)
          /\ playback_state'.start_position = get_elapsed(playback_state, now)
      ]_vars

\* a track at volume 0.5 that had played for a second was restarted on the
\* named device
C27_Witness ==
    /\ result.op = "set_audio_device"
    /\ queue = << >>
    /\ engine_pc = "check"
    /\ selected_device_name = Some("hdmi")
    /\ audio_output
    /\ current_sink # None
    /\ Unwrap(current_sink).volume = 50
    /\ ~playback_state.is_paused
    /\ playback_state.start_time = Some(now)
    /\ playback_state.start_position = 1

---------------------------------------------------------------------------
(* Play after a device switch that left the engine without an output: one  *)
(* caller loads the folder, switches the device and, once the engine has   *)
(* taken the switch and holds no output stream, plays                      *)

Reopen ==
    \/ result.op = "none" /\ load_folder(Folder)
    \/ /\ result.op = "load_folder"
       /\ \E device_name \in DeviceInputs : set_audio_device(device_name)
    \/ /\ result.op \in {"set_audio_device", "play_track"}
       /\ queue = << >>
       /\ ~audio_output
       /\ \E index \in FolderIndexes, skip_secs \in SkipInputs :
             play_track(index, skip_secs)

NextReopen ==
    \/ Reopen
    \/ Engine
    \/ Tick

SpecReopen == Init /\ [][NextReopen]_vars

\* the engine takes a Play while it holds no output stream
PlayWithoutOutput ==
    /\ EngineRecv
    /\ Head(queue).type = "Play"
    /\ ~audio_output

\* C28: a Play taken after a device switch that left no output stream opens
\* an output first.  If that fails nothing is decoded: there is no sink and
\* the clock is unchanged.  If it succeeds and the file decodes, the engine
\* holds the output and a fresh sink for the path at the volume of the
\* command, and the clock is reset as by any successful Play.
C28_PlayReopensOutput ==
    [][ PlayWithoutOutput =>
          LET cmd == Head(queue) IN
          /\ ~audio_output' =>
                (current_sink' = None /\ UNCHANGED playback_state)
          /\ current_sink' # None =>
                /\ audio_output'
                /\ Unwrap(current_sink').path = cmd.path
                /\ Unwrap(current_sink').volume = cmd.volume
                /\ ~Unwrap(current_sink').paused
                /\ playback_state' =
                       [playback_state EXCEPT
                           !.start_time = Some(now),
                           !.start_position = cmd.skip,
                           !.is_paused = FALSE,
                           !.pause_time = None,
                           !.current_path = Some(cmd.path),
                           !.is_finished = FALSE]
      ]_vars

\* the Play sent while the engine had no output has opened one and plays
\* the second track from 10 s
C28_Witness ==
    /\ result.op = "play_track"
    /\ result.status = "ok"
    /\ queue = << >>
    /\ engine_pc = "check"
    /\ audio_output
    /\ current_sink # None
    /\ playback_state.current_path = Some(Folder[2])
    /\ playback_state.start_time = Some(now)
    /\ playback_state.start_position = 10

---------------------------------------------------------------------------
(* The paused flag of the session and the paused flag of the clock *)

NextPaused ==
    \/ Transport
    \/ next_track
    \/ prev_track
    \/ \E device_name \in DeviceInputs : set_audio_device(device_name)
    \/ Engine

SpecPaused == Init /\ [][NextPaused]_vars

\* C29: whenever the queue is empty, that is when the engine has taken every
\* command that was sent, status().isPaused equals the paused flag of the
\* engine's clock.
C29_PausedFlagsAgree ==
    queue = << >> => (get_status.is_paused = playback_state.is_paused)

---------------------------------------------------------------------------
(* next() while set_playlist() runs on another thread.  next_track is      *)
(* taken lock by lock; set_playlist holds one lock and is one step.        *)

NextRace ==
    \/ \E paths \in PlaylistInputs : set_playlist(paths)
    \/ \E index \in IndexInputs : play_track(index, None)
    \/ next_track_len
    \/ next_track_index
    \/ next_track_read
    \/ Engine

SpecRace == Init /\ [][NextRace]_vars

\* C30: next() and previous() never read the playlist at a position outside
\* [0, playlistLength), also when the playlist is replaced by a shorter one
\* between their length check and their read of the element: no call ends
\* in the panic of an index out of bounds.
C30_ReadsInBounds == ~panicked

---------------------------------------------------------------------------
(* seek_relative on a track of unknown duration, under SpecSession *)

\* C31: seekRelative(delta) at elapsed position E on a playing track whose
\* duration is unknown returns max(E + delta, 0) and sends Seek of that value.
C31_SeekRelativeUnbounded ==
    [][ \A delta \in DeltaInputs :
          (seek_relative(delta) /\ is_playing /\ current_duration = None) =>
             LET expect == Max(get_elapsed(playback_state, now) + delta, 0) IN
             /\ result'.status = "ok"
             /\ result'.value = expect
             /\ queue' = Append(queue, CmdSeek(expect))
      ]_vars

---------------------------------------------------------------------------
(* Pause, device switch, resume: one caller loads the folder, plays a      *)
(* track, and once the engine plays it pauses, switches the output device  *)
(* and resumes, each call made after the engine has taken the one before   *)

Switch ==
    \/ result.op = "none" /\ load_folder(Folder)
    \/ /\ result.op = "load_folder"
       /\ \E index \in 0 .. Len(Folder) - 1 : play_track(index, None)
    \/ /\ result.op = "play_track"
       /\ queue = << >>
       /\ current_sink # None
       /\ toggle_pause
    \/ /\ result.op = "toggle_pause"
       /\ result.flag
       /\ queue = << >>
       /\ \E device_name \in DeviceInputs : set_audio_device(device_name)
    \/ /\ result.op = "set_audio_device"
       /\ queue = << >>
       /\ toggle_pause

NextSwitch ==
    \/ Switch
    \/ Engine
    \/ Tick

SpecSwitch == Init /\ [][NextSwitch]_vars

\* the engine has processed Pause, SetDevice with an output that opened, and
\* Resume, in this order, for a loaded track
SwitchedAndResumed ==
    /\ result.op = "toggle_pause"
    /\ ~result.flag
    /\ queue = << >>
    /\ engine_pc = "check"
    /\ audio_output
    /\ playback_state.current_path # None

\* C32: after Pause, SetOutputDevice (the new output opens) and Resume are
\* processed for a loaded track, a sink exists and the clock is not paused.
C32_ResumeAfterSwitchPlays ==
    SwitchedAndResumed =>
       /\ current_sink # None
       /\ ~playback_state.is_paused

---------------------------------------------------------------------------
(* what the engine plays against what the session reports, once every      *)
(* command sent has been processed                                         *)

\* the engine has taken every command and holds a sink
Settled ==
    /\ queue = << >>
    /\ current_sink # None

\* C33: whenever the command queue is empty and the engine has a sink, the
\* track of that sink is the session's current track.
C33_SinkPlaysCurrentTrack ==
    Settled => current_track = Some(FileName(Unwrap(current_sink).path))

\* C34: whenever the command queue is empty and the engine has a sink, the
\* volume of that sink is the session volume.
C34_SinkVolumeIsSessionVolume ==
    Settled => Unwrap(current_sink).volume = volume

---------------------------------------------------------------------------
(* playback speed: callers load the folder, play, set the speed, seek and  *)
(* switch the output device                                                *)

NextSpeed ==
    \/ load_folder(Folder)
    \/ \E index \in 0 .. Len(Folder) - 1 : play_track(index, None)
    \/ \E s \in SpeedInputs : set_speed(s)
    \/ \E position \in SeekInputs : seek(position)
    \/ \E device_name \in DeviceInputs : set_audio_device(device_name)
    \/ Engine

SpecSpeed == Init /\ [][NextSpeed]_vars

\* C35: whenever the command queue is empty and the engine has a sink, the
\* speed status() reports is the playback speed of that sink.
C35_StatusSpeedIsSinkSpeed ==
    Settled => get_status.speed = Unwrap(current_sink).speed

---------------------------------------------------------------------------
(* Concurrent callers, lock by lock: status(), togglePause() and seek()    *)
(* run on three threads next to the engine, each taken one lock at a time, *)
(* after the folder was loaded and a track was played.                     *)

\* a track was played
Played == result.op \notin { "none", "load_folder" }

NextLocks ==
    \/ result.op = "none" /\ load_folder(Folder)
    \/ result.op = "load_folder" /\ play_track(1, None)
    \/ Played /\ get_status_call
    \/ get_status_read
    \/ Played /\ toggle_pause_call
    \/ toggle_pause_check
    \/ toggle_pause_lock
    \/ toggle_pause_flip
    \/ Played /\ seek_call(0)
    \/ seek_check
    \/ seek_lock
    \/ seek_send
    \/ EngineCheck
    \/ EngineTimeout
    \/ EngineRecv /\ Head(queue).type # "Seek"
    \/ EngineSeekLocks
    \/ EngineSeekRuns

SpecLocks == Init /\ [][NextLocks]_vars

---------------------------------------------------------------------------
(* togglePause() on one thread while stop() runs on another, both taken    *)
(* one lock at a time; play() runs while neither is part-way through.      *)

NextFlags ==
    \/ result.op = "none" /\ load_folder(Folder)
    \/ /\ result.op # "none"
       /\ calls.toggle_pause = 0
       /\ calls.stop = 0
       /\ \E index \in 0 .. Len(Folder) - 1 : play_track(index, None)
    \/ toggle_pause_call
    \/ toggle_pause_check
    \/ toggle_pause_lock
    \/ toggle_pause_flip
    \/ stop_send
    \/ stop_is_playing
    \/ stop_is_paused
    \/ stop_current_track
    \/ Engine

SpecFlags == Init /\ [][NextFlags]_vars

\* C36: in every reachable session state isPaused implies isPlaying, for
\* every interleaving of concurrent togglePause, stop and play calls.
C36_PausedImpliesPlaying == is_paused => is_playing

---------------------------------------------------------------------------
(* Locks and waiting, under SpecLocks *)

\* thread t is about to take a lock while it holds another
HoldAndWait(t) == Wants(t) # {} /\ Holds(t) # {}

\* thread t waits for a lock that thread u holds
WaitsFor(t, u) == \E lock \in Wants(t) : lock \in Holds(u)

\* no set of threads waits in a circle, each for a lock held by another of
\* the set (or by itself)
NoWaitCycle ==
    \A S \in SUBSET Threads :
       S # {} => \E t \in S : \A u \in S : ~WaitsFor(t, u)

\* C37 as stated: no caller operation and no engine step takes a lock while
\* holding another lock.  Refuted by get_status, which keeps the guards of
\* the fields it has read while it locks the next field.
C37_NoHoldAndWait == \A t \in Threads : ~HoldAndWait(t)

\* C37: the callers and the engine are deadlock-free: no set of threads waits
\* in a circle for each other's locks, because get_status is the only
\* operation that takes a lock while holding another (it takes them in the
\* order of its fields) and neither another caller nor the engine does.
C37_DeadlockFree ==
    /\ NoWaitCycle
    /\ \A t \in Threads \ { "get_status" } : ~HoldAndWait(t)

\* status() holds is_playing and waits for is_paused, which togglePause()
\* holds; seek() waits for is_playing
C37_Witness ==
    /\ calls.get_status.pc = 2
    /\ calls.toggle_pause = 3
    /\ calls.seek.pc = 1
    /\ WaitsFor("get_status", "toggle_pause")
    /\ WaitsFor("seek", "get_status")

=============================================================================
